---- MODULE Spec2Model ----
(***************************************************************************)
(* abi_exporter (src/main.go): a Prometheus exporter that polls a list of  *)
(* URLs for a certificate date limit and publishes the days remaining in   *)
(* the gauge vector dap_abi_cert_expired_day{url, origin_prometheus}.      *)
(*                                                                         *)
(* Numbers.  Gauge values are held in hundredths of a day (the precision   *)
(* round(.., 2) produces), so Set(-1) stores -100.  Instants and durations *)
(* are held in ticks of a quarter of a hundredth of a day (216 s), fine    *)
(* enough to have values below, at and above a rounding tie.  Arithmetic   *)
(* is exact: the float64 representation error of value*scale is not       *)
(* modelled.                                                               *)
(***************************************************************************)
EXTENDS Integers, Sequences, FiniteSets, TLC

\* ---------------------------------------------------------------- bounds
MaxCfgLen == 2      \* longest "urls" list a configuration file holds
MaxCycles == 2      \* scheduler cycles explored
MaxNow == 1         \* readings of time.Now() range over 0..MaxNow ticks
MaxScrapes == 1     \* scrapes of /metrics explored

\* ------------------------------------------------------------- constants
\* round(dateDiff, 2): scale = math.Pow(10, 2)
Scale == 100
\* ticks per hundredth of a day; dateDiff = Hours()/24 is ticks / (4 * Scale)
TicksPerHundredth == 4
\* Set(-1), in hundredths
Sentinel == (-1) * Scale
\* time.Duration is an int64 of nanoseconds and Time.Sub saturates at its
\* range: (2^63 - 1) ns = 42700796.47 ticks
MaxDuration == 42700796
\* "9999-01-01 00:00:00", the far end of what the layout's 4-digit year parses
FarFuture == 1164000000

\* ------------------------------------------------------- the environment
\* URLConfig{URL, Label, OriginPrometheus}
Descriptors ==
    { [url |-> "a", label |-> "x", origin |-> "p"],
      [url |-> "a", label |-> "x", origin |-> "q"],
      [url |-> "%zz", label |-> "x", origin |-> "p"] }

RECURSIVE SeqsUpTo(_, _)
SeqsUpTo(S, n) ==
    IF n = 0 THEN { <<>> }
    ELSE LET shorter == SeqsUpTo(S, n - 1)
         IN  shorter \cup { Append(s, x) : s \in { t \in shorter : Len(t) = n - 1 }, x \in S }

\* Config{URLs}
Configs == SeqsUpTo(Descriptors, MaxCfgLen)

\* what readConfig returns: (config, nil) or (_, err)
readConfig ==
    { [err |-> FALSE, URLs |-> c] : c \in Configs } \cup { [err |-> TRUE, URLs |-> <<>>] }

\* http.NewRequest fails on a URL that url.Parse rejects
NewRequestOk(url) == url # "%zz"

\* the readings of time.Now() (wall clock: dateLimit carries no monotonic reading)
Clock == 0 .. MaxNow

\* data.DateLimit of a decoded body: a text and, when the text is in the layout,
\* the wall-clock tick it spells.  The strings are the empty one, one that is not
\* in the layout, and one in the layout for each tick of DateLimits.
DateLimits == { -399, -1, 2, FarFuture }
DateStrings ==
    { [text |-> "", wall |-> 0], [text |-> "not a date", wall |-> 0] }
        \cup { [text |-> "2006-01-02 15:04:05", wall |-> w] : w \in DateLimits }

\* time.Parse("2006-01-02 15:04:05", s): no zone in the layout, so the fields
\* are read as UTC
timeParse(s) ==
    IF s.text = "2006-01-02 15:04:05"
    THEN [err |-> FALSE, t |-> s.wall]
    ELSE [err |-> TRUE, t |-> 0]

\* dateLimit.Sub(currentTime): t - u, saturated to the Duration range
Sub(t, u) ==
    LET d == t - u
    IN  IF d > MaxDuration THEN MaxDuration
        ELSE IF d < -MaxDuration THEN -MaxDuration
        ELSE d

Abs(x) == IF x < 0 THEN -x ELSE x

\* math.Floor(value*scale) in place of math.Round: a mutant of round
roundFloor(d) == d \div TicksPerHundredth

\* a negative difference clamped to zero: a mutant of round
roundClamped(d) ==
    IF d < 0 THEN 0 ELSE (d + TicksPerHundredth \div 2) \div TicksPerHundredth

\* round(value, 2) of value = d ticks: math.Round rounds to the nearest
\* integer, halves away from zero.  The result is in hundredths.
round(d) ==
    LET half == TicksPerHundredth \div 2
        q == (Abs(d) + half) \div TicksPerHundredth
    IN  IF d < 0 THEN -q ELSE q

\* the key without the origin label: the mutant of Key
KeyByURL(d) == <<d.url, "">>

\* metric key: WithLabelValues(urlConfig.URL, urlConfig.OriginPrometheus)
Key(d) == <<d.url, d.origin>>

\* a write that lands half new, half old: the mutant of Set
SetTorn(st, k, v) ==
    [x \in DOMAIN st \cup {k} |->
        IF x = k
        THEN IF k \in DOMAIN st THEN (v \div 65536) * 65536 + (st[k] % 65536) ELSE v
        ELSE st[x]]

\* a write that an entry already there turns away: the mutant of Set
SetIfAbsent(st, k, v) ==
    IF k \in DOMAIN st THEN st ELSE [x \in DOMAIN st \cup {k} |-> IF x = k THEN v ELSE st[x]]

\* metric.WithLabelValues(k).Set(v): creates the child if absent, stores v
\* atomically
Set(st, k, v) ==
    [x \in DOMAIN st \cup {k} |-> IF x = k THEN v ELSE st[x]]

NoStore == [x \in {} |-> 0]
None == [kind |-> "none"]

VARIABLES
    pc,          \* main goroutine: "init", "init_loop", "main", "listen", "serving", "exited"
    exitCode,    \* os.Exit status; 0 while running
    startupLoad, \* outcome of init's readConfig: "pending", "ok", "failed"
    config,      \* init's config.URLs
    i,           \* init's range index
    store,       \* metric: key -> gauge value
    sched,       \* scheduler goroutine: "off", "load", "loop", "wait", "sleep"
    cycleConfig, \* the goroutine's config.URLs of this cycle
    j,           \* the goroutine's range index
    cycles,      \* cycles begun
    cycleLoad,   \* outcome of the goroutine's latest readConfig: "none", "ok", "failed"
    scr,         \* scrape handler: "idle", "reading"
    scrKeys,     \* children collected for the scrape in progress, not yet read
    scraped,     \* the sample the scrape in progress has read last
    served,      \* scrapes answered
    results,     \* history: this cycle's fetchData returns, [key, failed, value]
    last,        \* history: this cycle's latest fetchData return, with its inputs
    measured,    \* history: keys that a fetchData has published a measurement for
    sent         \* history: the range indices whose request went out in this cycle

vars == <<pc, exitCode, startupLoad, config, i, store, sched, cycleConfig, j, cycles,
          cycleLoad, scr, scrKeys, scraped, served, results, last, measured, sent>>

mainVars == <<pc, exitCode, startupLoad, config, i>>
schedVars == <<sched, cycleConfig, j, cycles, cycleLoad>>
scrapeVars == <<scr, scrKeys, scraped, served>>
histVars == <<results, last, measured, sent>>

Init ==
    /\ pc = "init"
    /\ exitCode = 0
    /\ startupLoad = "pending"
    /\ config = <<>>
    /\ i = 0
    /\ store = NoStore
    /\ sched = "off"
    /\ cycleConfig = <<>>
    /\ j = 0
    /\ cycles = 0
    /\ cycleLoad = "none"
    /\ scr = "idle"
    /\ scrKeys = {}
    /\ scraped = None
    /\ served = 0
    /\ results = <<>>
    /\ last = None
    /\ measured = {}
    /\ sent = <<>>

\* log.Printf in place of log.Fatalf: the mutant of InitReadConfigFails
InitReadConfigFailsLogged ==
    /\ pc = "init"
    /\ \E r \in readConfig : r.err
    /\ pc' = "init_loop"
    /\ i' = 1
    /\ startupLoad' = "failed"
    /\ UNCHANGED <<exitCode, config, store, schedVars, scrapeVars, histVars>>

\* the goroutine launched from init, ahead of the range loop: the mutant of
\* InitReadConfigOk
InitReadConfigOkStartsScheduler ==
    /\ pc = "init"
    /\ \E r \in readConfig :
        /\ ~r.err
        /\ config' = r.URLs
    /\ i' = 1
    /\ pc' = "init_loop"
    /\ startupLoad' = "ok"
    /\ sched' = "load"
    /\ UNCHANGED <<exitCode, store, cycleConfig, j, cycles, cycleLoad, scrapeVars, histVars>>

\* WithLabelValues without Set(-1), which leaves a new gauge at 0: the mutant
\* of InitSet
InitSetZero ==
    /\ pc = "init_loop"
    /\ i <= Len(config)
    /\ store' = Set(store, Key(config[i]), 0)
    /\ i' = i + 1
    /\ UNCHANGED <<pc, exitCode, startupLoad, config, schedVars, scrapeVars, histVars>>

\* ------------------------------------------------------------------ init()
\* readConfig fails: log.Fatalf, the process exits with status 1
InitReadConfigFails ==
    /\ pc = "init"
    /\ \E r \in readConfig : r.err
    /\ pc' = "exited"
    /\ exitCode' = 1
    /\ startupLoad' = "failed"
    /\ UNCHANGED <<config, i, store, schedVars, scrapeVars, histVars>>

InitReadConfigOk ==
    /\ pc = "init"
    /\ \E r \in readConfig :
        /\ ~r.err
        /\ config' = r.URLs
    /\ i' = 1
    /\ pc' = "init_loop"
    /\ startupLoad' = "ok"
    /\ UNCHANGED <<exitCode, store, schedVars, scrapeVars, histVars>>

\* one iteration of the range loop: Set(-1) under the descriptor's key
InitSet ==
    /\ pc = "init_loop"
    /\ i <= Len(config)
    /\ store' = Set(store, Key(config[i]), Sentinel)
    /\ i' = i + 1
    /\ UNCHANGED <<pc, exitCode, startupLoad, config, schedVars, scrapeVars, histVars>>

\* init returns; main starts
InitDone ==
    /\ pc = "init_loop"
    /\ i > Len(config)
    /\ pc' = "main"
    /\ UNCHANGED <<exitCode, startupLoad, config, i, store, schedVars, scrapeVars, histVars>>

\* ------------------------------------------------------------------ main()
\* go func() { for { ... } }(): the scheduler goroutine exists from here on
MainStart ==
    /\ pc = "main"
    /\ pc' = "listen"
    /\ sched' = "load"
    /\ UNCHANGED <<exitCode, startupLoad, config, i, store, cycleConfig, j, cycles,
                   cycleLoad, scrapeVars, histVars>>

\* http.ListenAndServe(":18000", r) binds the port and serves
ListenOk ==
    /\ pc = "listen"
    /\ pc' = "serving"
    /\ UNCHANGED <<exitCode, startupLoad, config, i, store, schedVars, scrapeVars, histVars>>

\* http.ListenAndServe returns an error: log.Fatal, status 1
ListenFails ==
    /\ pc = "listen"
    /\ pc' = "exited"
    /\ exitCode' = 1
    /\ UNCHANGED <<startupLoad, config, i, store, schedVars, scrapeVars, histVars>>

\* ------------------------------------------------- the scheduler goroutine
Running == pc # "exited"

\* a reload that deletes the entries of the descriptors no longer listed
\* (metric.Reset and the like): the mutant of SchedReadConfigOk
SchedReadConfigOkPurges ==
    /\ Running
    /\ sched = "load"
    /\ cycles < MaxCycles
    /\ \E r \in readConfig :
        /\ ~r.err
        /\ cycleConfig' = r.URLs
        /\ store' = [k \in { Key(r.URLs[q]) : q \in 1 .. Len(r.URLs) } \cap DOMAIN store |->
                        store[k]]
    /\ j' = 1
    /\ cycles' = cycles + 1
    /\ sched' = "loop"
    /\ cycleLoad' = "ok"
    /\ results' = <<>>
    /\ last' = None
    /\ sent' = <<>>
    /\ UNCHANGED <<mainVars, scrapeVars, measured>>

\* readConfig("config.json") at the top of a cycle
SchedReadConfigOk ==
    /\ Running
    /\ sched = "load"
    /\ cycles < MaxCycles
    /\ \E r \in readConfig :
        /\ ~r.err
        /\ cycleConfig' = r.URLs
    /\ j' = 1
    /\ cycles' = cycles + 1
    /\ sched' = "loop"
    /\ cycleLoad' = "ok"
    /\ results' = <<>>
    /\ last' = None
    /\ sent' = <<>>
    /\ UNCHANGED <<mainVars, store, scrapeVars, measured>>

\* log.Printf and a skipped cycle in place of log.Fatalf: the mutant of
\* SchedReadConfigFails
SchedReadConfigFailsLogged ==
    /\ Running
    /\ sched = "load"
    /\ \E r \in readConfig : r.err
    /\ sched' = "sleep"
    /\ cycleLoad' = "failed"
    /\ UNCHANGED <<mainVars, store, cycleConfig, j, cycles, scrapeVars, histVars>>

\* readConfig fails in the goroutine: log.Fatalf ends the process
SchedReadConfigFails ==
    /\ Running
    /\ sched = "load"
    /\ \E r \in readConfig : r.err
    /\ pc' = "exited"
    /\ exitCode' = 1
    /\ cycleLoad' = "failed"
    /\ UNCHANGED <<startupLoad, config, i, store, sched, cycleConfig, j, cycles,
                   scrapeVars, histVars>>

\* a failure that ends the goroutine (a return out of the for loop, a panic):
\* the mutant of Return
ReturnStopsOnFailure(kind, date, at, v) ==
    LET k == Key(cycleConfig[j])
    IN  /\ store' = Set(store, k, v)
        /\ last' = [kind |-> kind, key |-> k, date |-> date, at |-> at, value |-> v]
        /\ results' = Append(results, [key |-> k, failed |-> kind # "ok", value |-> v])
        /\ measured' = IF kind = "ok" THEN measured \cup {k} ELSE measured
        /\ j' = j + 1
        /\ sched' = IF kind = "ok" THEN "loop" ELSE "off"
        /\ UNCHANGED <<mainVars, cycleConfig, cycles, cycleLoad, scrapeVars, sent>>

\* fetchData's one write and its return to the range loop
Return(kind, date, at, v) ==
    LET k == Key(cycleConfig[j])
    IN  /\ store' = Set(store, k, v)
        /\ last' = [kind |-> kind, key |-> k, date |-> date, at |-> at, value |-> v]
        /\ results' = Append(results, [key |-> k, failed |-> kind # "ok", value |-> v])
        /\ measured' = IF kind = "ok" THEN measured \cup {k} ELSE measured
        /\ j' = j + 1
        /\ sched' = "loop"
        /\ UNCHANGED <<mainVars, cycleConfig, cycles, cycleLoad, scrapeVars, sent>>

\* http.NewRequest returns an error: Set(-1), return
FetchNewRequestFails ==
    /\ Running
    /\ sched = "loop"
    /\ j <= Len(cycleConfig)
    /\ ~NewRequestOk(cycleConfig[j].url)
    /\ Return("new_request", 0, 0, Sentinel)

\* go fetchData(urlConfig): the request goes out and the range loop moves on
\* without the call's return: a mutant of FetchDo
FetchDoAsync ==
    /\ Running
    /\ sched = "loop"
    /\ j <= Len(cycleConfig)
    /\ NewRequestOk(cycleConfig[j].url)
    /\ sent' = Append(sent, j)
    /\ j' = j + 1
    /\ UNCHANGED <<mainVars, store, sched, cycleConfig, cycles, cycleLoad, scrapeVars,
                   results, last, measured>>

\* Set(-1) ahead of the request, a second write of the call: the mutant of
\* FetchDo
FetchDoPresets ==
    /\ Running
    /\ sched = "loop"
    /\ j <= Len(cycleConfig)
    /\ NewRequestOk(cycleConfig[j].url)
    /\ sched' = "wait"
    /\ sent' = Append(sent, j)
    /\ store' = Set(store, Key(cycleConfig[j]), Sentinel)
    /\ UNCHANGED <<mainVars, cycleConfig, j, cycles, cycleLoad, scrapeVars,
                   results, last, measured>>

\* http.DefaultClient.Do(req): the request is out, the goroutine blocks
FetchDo ==
    /\ Running
    /\ sched = "loop"
    /\ j <= Len(cycleConfig)
    /\ NewRequestOk(cycleConfig[j].url)
    /\ sched' = "wait"
    /\ sent' = Append(sent, j)
    /\ UNCHANGED <<mainVars, store, cycleConfig, j, cycles, cycleLoad, scrapeVars,
                   results, last, measured>>

\* a transport error answered by sending the request again: the mutant of
\* FetchTransportError
FetchTransportErrorRetries ==
    /\ Running
    /\ sched = "wait"
    /\ sched' = "loop"
    /\ UNCHANGED <<mainVars, store, cycleConfig, j, cycles, cycleLoad, scrapeVars, histVars>>

\* Do returns an error: Set(-1), return
FetchTransportError ==
    /\ Running
    /\ sched = "wait"
    /\ Return("transport", 0, 0, Sentinel)

\* the body does not decode into APIResponse: Set(-1), return
FetchDecodeError ==
    /\ Running
    /\ sched = "wait"
    /\ Return("decode", 0, 0, Sentinel)

\* the empty date published as 0 days: the mutant of FetchEmptyDateLimit
FetchEmptyDateLimitZero ==
    /\ Running
    /\ sched = "wait"
    /\ \E s \in DateStrings :
        /\ s.text = ""
        /\ Return("empty", 0, 0, 0)

\* apiResponse.Data.DateLimit == "": Set(-1), return
FetchEmptyDateLimit ==
    /\ Running
    /\ sched = "wait"
    /\ \E s \in DateStrings :
        /\ s.text = ""
        /\ Return("empty", 0, 0, Sentinel)

\* time.Parse returns an error: Set(-1), return
FetchParseError ==
    /\ Running
    /\ sched = "wait"
    /\ \E s \in DateStrings :
        /\ s.text # ""
        /\ timeParse(s).err
        /\ Return("parse", 0, 0, Sentinel)

\* the date parses: Set(round(dateLimit.Sub(time.Now()).Hours() / 24, 2))
FetchPublish ==
    /\ Running
    /\ sched = "wait"
    /\ \E s \in DateStrings, now \in Clock :
        /\ s.text # ""
        /\ ~timeParse(s).err
        /\ LET dateLimit == timeParse(s).t
           IN  Return("ok", dateLimit, now, round(Sub(dateLimit, now)))

\* a loop that a failed fetchData breaks out of: the mutant of CycleDone
CycleDoneOnFailure ==
    /\ Running
    /\ sched = "loop"
    /\ \/ j > Len(cycleConfig)
       \/ results # <<>> /\ results[Len(results)].failed
    /\ sched' = "sleep"
    /\ UNCHANGED <<mainVars, store, cycleConfig, j, cycles, cycleLoad, scrapeVars, histVars>>

\* the range loop is over: time.Sleep(10 * time.Hour)
CycleDone ==
    /\ Running
    /\ sched = "loop"
    /\ j > Len(cycleConfig)
    /\ sched' = "sleep"
    /\ UNCHANGED <<mainVars, store, cycleConfig, j, cycles, cycleLoad, scrapeVars, histVars>>

\* the sleep ends; the for loop starts over
Wake ==
    /\ Running
    /\ sched = "sleep"
    /\ sched' = "load"
    /\ UNCHANGED <<mainVars, store, cycleConfig, j, cycles, cycleLoad, scrapeVars, histVars>>

\* ------------------------------------------------ GET /metrics (promhttp)
\* Gather collects the vector's children
ScrapeBegin ==
    /\ pc = "serving"
    /\ scr = "idle"
    /\ served < MaxScrapes
    /\ scr' = "reading"
    /\ scrKeys' = DOMAIN store
    /\ UNCHANGED <<mainVars, store, schedVars, scraped, served, histVars>>

\* one child's value is loaded atomically and goes into the response
ScrapeRead ==
    /\ pc = "serving"
    /\ scr = "reading"
    /\ \E k \in scrKeys :
        /\ scraped' = [kind |-> "sample", key |-> k, value |-> store[k]]
        /\ scrKeys' = scrKeys \ {k}
    /\ UNCHANGED <<mainVars, store, schedVars, scr, served, histVars>>

\* the response is complete and the handler returns
ScrapeEnd ==
    /\ pc = "serving"
    /\ scr = "reading"
    /\ scrKeys = {}
    /\ scr' = "idle"
    /\ scraped' = None
    /\ served' = served + 1
    /\ UNCHANGED <<mainVars, store, schedVars, scrKeys, histVars>>

Next ==
    \/ InitReadConfigFails
    \/ InitReadConfigOk
    \/ InitSet
    \/ InitDone
    \/ MainStart
    \/ ListenOk
    \/ ListenFails
    \/ SchedReadConfigOk
    \/ SchedReadConfigFails
    \/ FetchNewRequestFails
    \/ FetchDo
    \/ FetchTransportError
    \/ FetchDecodeError
    \/ FetchEmptyDateLimit
    \/ FetchParseError
    \/ FetchPublish
    \/ CycleDone
    \/ Wake
    \/ ScrapeBegin
    \/ ScrapeRead
    \/ ScrapeEnd

Spec == Init /\ [][Next]_vars

\* ------------------------------------------- the scheduler without an end
\* readConfig("config.json") at the top of a cycle past the cycles counted:
\* the for loop has no exit, the count stays at MaxCycles
SchedReadConfigOkUncounted ==
    /\ Running
    /\ sched = "load"
    /\ cycles = MaxCycles
    /\ \E r \in readConfig :
        /\ ~r.err
        /\ cycleConfig' = r.URLs
    /\ j' = 1
    /\ sched' = "loop"
    /\ cycleLoad' = "ok"
    /\ results' = <<>>
    /\ last' = None
    /\ sent' = <<>>
    /\ UNCHANGED <<mainVars, store, cycles, scrapeVars, measured>>

\* the main goroutine up to ListenAndServe
MainSteps ==
    \/ InitReadConfigFails
    \/ InitReadConfigOk
    \/ InitSet
    \/ InitDone
    \/ MainStart

\* the scheduler goroutine: every statement of the for loop at lines 135-147
SchedulerSteps ==
    \/ SchedReadConfigOk
    \/ SchedReadConfigOkUncounted
    \/ SchedReadConfigFails
    \/ FetchNewRequestFails
    \/ FetchDo
    \/ FetchTransportError
    \/ FetchDecodeError
    \/ FetchEmptyDateLimit
    \/ FetchParseError
    \/ FetchPublish
    \/ CycleDone
    \/ Wake

\* the two goroutines and the listener, without the scrapes (which read the
\* store and nothing of the scheduler)
LiveNext ==
    \/ MainSteps
    \/ ListenOk
    \/ ListenFails
    \/ SchedulerSteps

\* The Go runtime runs a runnable goroutine, time.Sleep ends, and (the
\* assumption of the liveness claim) every call of http.DefaultClient.Do
\* returns: a goroutine that can take a step eventually takes one.
LiveSpec ==
    /\ Init
    /\ [][LiveNext]_vars
    /\ WF_vars(MainSteps)
    /\ WF_vars(SchedulerSteps)

\* ================================================================ claims
\* the keys of the descriptors init loaded
StartupKeys == { <<config[q].url, config[q].origin>> : q \in 1 .. Len(config) }
\* the keys of the descriptors the goroutine loaded for this cycle
CycleKeys == { <<cycleConfig[q].url, cycleConfig[q].origin>> : q \in 1 .. Len(cycleConfig) }
\* the four failures of one fetchData call that follow the request
FailureKinds == { "transport", "decode", "empty", "parse" }
\* a difference of instants cut to the range of time.Duration
Saturated(d) ==
    IF d > MaxDuration THEN MaxDuration ELSE IF d < -MaxDuration THEN -MaxDuration ELSE d
\* v hundredths is d ticks rounded to the nearest hundredth, a tie going away
\* from zero
NearestAwayFromZero(v, d) ==
    LET e == Abs(TicksPerHundredth * v - d)
    IN  /\ e <= TicksPerHundredth - e
        /\ e = TicksPerHundredth - e => Abs(TicksPerHundredth * v) > Abs(d)

\* C1: once init has returned, every key of the startup configuration is in the
\* store; no scrape is in progress or answered before that; and as long as no
\* fetch of a startup key has succeeded, the store holds -1 under it and a
\* scrape that reads it reads -1.
C1_SentinelUntilFirstMeasurement ==
    /\ pc \in { "main", "listen", "serving" } =>
            \A k \in StartupKeys :
                /\ k \in DOMAIN store
                /\ k \notin measured => store[k] = Sentinel
    /\ pc = "main" => \A k \in StartupKeys : store[k] = Sentinel
    /\ (scr = "reading" \/ served > 0) =>
            /\ startupLoad = "ok"
            /\ i > Len(config)
            /\ StartupKeys \subseteq DOMAIN store
    /\ (scraped # None /\ scraped.key \in StartupKeys /\ scraped.key \notin measured) =>
            scraped.value = Sentinel

\* C1 witness: a scrape reads -1 for a startup key whose only fetch so far failed
C1_Witness ==
    /\ scraped # None
    /\ scraped.key \in StartupKeys
    /\ scraped.key \notin measured
    /\ scraped.value = Sentinel
    /\ last # None
    /\ last.key = scraped.key
    /\ last.kind = "transport"

\* C2: a fetchData call that ends in a transport failure, an undecodable body,
\* an empty date limit or an unparseable date limit leaves exactly -1 under its
\* descriptor's key, whatever was there, and returns to the range loop: the
\* loop index advances and the process does not exit.
C2_FailurePublishesSentinel ==
    [][ (sched = "wait" /\ sched' # "wait" /\ last'.kind \in FailureKinds) =>
            /\ last'.key = <<cycleConfig[j].url, cycleConfig[j].origin>>
            /\ last'.key \in DOMAIN store'
            /\ store'[last'.key] = Sentinel
            /\ sched' = "loop"
            /\ j' = j + 1
            /\ pc' = pc
            /\ exitCode' = exitCode ]_vars

\* C2 witness: a failed fetch has replaced a measurement other than -1, made
\* earlier in the cycle under the same key, by -1
C2_Witness ==
    /\ sched = "loop"
    /\ Len(results) = 2
    /\ results[1].key = results[2].key
    /\ ~results[1].failed
    /\ results[1].value # Sentinel
    /\ last.kind \in FailureKinds
    /\ store[last.key] = Sentinel

\* C3: after a fetch whose date limit parsed, the value under the key is
\* (dateLimit - now) in days rounded to two decimals, a tie going away from
\* zero, for differences of either sign.
C3_PublishedIsRoundedDifference ==
    last.kind = "ok" =>
        /\ store[last.key] = last.value
        /\ NearestAwayFromZero(last.value, last.date - last.at)

\* What the code publishes instead: the rounded difference cut to the range of
\* time.Duration, which is the rounded difference wherever the two agree.
PublishedIsRoundedSaturatedDifference ==
    last.kind = "ok" =>
        /\ store[last.key] = last.value
        /\ NearestAwayFromZero(last.value, Saturated(last.date - last.at))

C5_EveryKnownDescriptorHasAnEntry ==
    pc \in { "main", "listen", "serving" } =>
        (StartupKeys \cup CycleKeys) \subseteq DOMAIN store

C7_InitializeIsIdempotent ==
    [][ (pc = "init_loop" /\ i' = i + 1) =>
            /\ <<config[i].url, config[i].origin>> \in DOMAIN store => store' = store
            /\ \A k \in measured : store'[k] = store[k]
            /\ store'[<<config[i].url, config[i].origin>>] = Sentinel ]_vars

\* C7 witness: init's loop has run twice over one key
C7_Witness ==
    /\ pc = "init_loop"
    /\ i = 3
    /\ config[1].url = config[2].url
    /\ config[1].origin = config[2].origin
    /\ DOMAIN store = { <<config[1].url, config[1].origin>> }
    /\ store[<<config[1].url, config[1].origin>>] = Sentinel

\* C8: when a cycle over descriptors with pairwise distinct keys is complete,
\* the store has one entry for each of them, holding what that descriptor's own
\* fetchData call published.
C8_EachKeyHoldsItsOwnOutcome ==
    (sched = "sleep" /\ Cardinality(CycleKeys) = Len(cycleConfig)) =>
        /\ Len(results) = Len(cycleConfig)
        /\ CycleKeys \subseteq DOMAIN store
        /\ Cardinality(CycleKeys \cap DOMAIN store) = Len(cycleConfig)
        /\ \A q \in 1 .. Len(cycleConfig) :
                store[<<cycleConfig[q].url, cycleConfig[q].origin>>] = results[q].value

\* C8 witness: two descriptors that differ in the origin label only, each with
\* its own measurement
C8_Witness ==
    /\ sched = "sleep"
    /\ Len(cycleConfig) = 2
    /\ cycleConfig[1].url = cycleConfig[2].url
    /\ cycleConfig[1].origin # cycleConfig[2].origin
    /\ ~results[1].failed
    /\ ~results[2].failed
    /\ results[1].value # results[2].value
    /\ store[<<cycleConfig[1].url, cycleConfig[1].origin>>] = results[1].value
    /\ store[<<cycleConfig[2].url, cycleConfig[2].origin>>] = results[2].value

\* C9: a value under a key changes only to what one Set call of init (-1) or of
\* fetchData (its published value) hands over for that key, whole, and every
\* sample a scrape reads is the value under that key at that moment.
C9_ScrapeReadsWholeValues ==
    [][ /\ \A k \in DOMAIN store' :
            (k \notin DOMAIN store \/ store'[k] # store[k]) =>
                \/ /\ pc = "init_loop"
                   /\ k = <<config[i].url, config[i].origin>>
                   /\ store'[k] = Sentinel
                \/ /\ sched \in { "loop", "wait" }
                   /\ Len(results') = Len(results) + 1
                   /\ last'.key = k
                   /\ store'[k] = last'.value
        /\ (scraped' # scraped /\ scraped' # None) =>
                /\ scraped'.key \in DOMAIN store
                /\ scraped'.value = store[scraped'.key]
                /\ store' = store ]_vars

\* C9 witness: a scrape has read a measurement while a fetch is in flight
C9_Witness ==
    /\ scr = "reading"
    /\ scraped # None
    /\ scraped.key \in measured
    /\ scraped.value # Sentinel
    /\ sched = "wait"

\* C10: when init's readConfig fails the process has exited with a non-zero
\* status, the goroutine was never started, no fetchData call was made and no
\* scrape was begun or answered.
C10_StartupLoadFailureIsFatal ==
    startupLoad = "failed" =>
        /\ pc = "exited"
        /\ exitCode # 0
        /\ sched = "off"
        /\ cycles = 0
        /\ results = <<>>
        /\ last = None
        /\ store = NoStore
        /\ scr = "idle"
        /\ served = 0

\* C10 witness: the process has exited on a failed startup load
C10_Witness ==
    /\ startupLoad = "failed"
    /\ pc = "exited"
    /\ exitCode = 1
\* C11: the scheduler is stopped by nothing but the end of the process, and the
\* process ends on a failed configuration load or a failed ListenAndServe only,
\* never on a return of fetchData; as long as the process runs, a cycle begins
\* again and again, each cycle reaches its sleep with one fetchData return per
\* descriptor, and each sleep ends.
C11_SchedulerNeverStops ==
    /\ [][ /\ (Running /\ ~Running') =>
                    (pc \in { "init", "listen" } \/ (sched = "load" /\ cycleLoad' = "failed"))
           /\ (sched \in { "loop", "wait" } /\ sched' # sched) =>
                    sched' \in { "loop", "wait", "sleep" } ]_vars
    /\ \/ <>(~Running)
       \/ /\ []<>(sched = "loop" /\ j = 1 /\ results = <<>> /\ sent = <<>>)
          /\ []<>(sched = "sleep" /\ Len(results) = Len(cycleConfig))
          /\ []<>(sched = "load")

\* C11 witness: a cycle past the first begins, and the store holds the -1 that
\* a failed http.NewRequest of an earlier cycle left under a key init never set
C11_Witness ==
    /\ Running
    /\ cycles = MaxCycles
    /\ sched = "loop"
    /\ j = 1
    /\ results = <<>>
    /\ <<"%zz", "p">> \in DOMAIN store
    /\ <<"%zz", "p">> \notin StartupKeys
    /\ store[<<"%zz", "p">>] = Sentinel
\* C12: a step of the scheduler that is not a return of fetchData writes
\* nothing to the store, and a return of fetchData, on whichever path, writes
\* once: the value it hands over lands under the key of the descriptor the call
\* was made for, and every other entry is as it was.
C12_OneWritePerInvocation ==
    [][ /\ (sched \in { "loop", "wait" } /\ j' = j) => store' = store
        /\ (sched \in { "loop", "wait" } /\ j' = j + 1) =>
                /\ Len(results') = Len(results) + 1
                /\ last'.key = <<cycleConfig[j].url, cycleConfig[j].origin>>
                /\ DOMAIN store' = DOMAIN store \cup { last'.key }
                /\ store'[last'.key] = last'.value
                /\ \A x \in DOMAIN store \ { last'.key } : store'[x] = store[x] ]_vars

\* C12 witness: a call that failed before any request went out has written -1
\* under its own key, and the measurement of the call before it, under another
\* key, is as that call left it
C12_Witness ==
    /\ sched = "loop"
    /\ Len(results) = 2
    /\ results[1].key # results[2].key
    /\ ~results[1].failed
    /\ results[1].value # Sentinel
    /\ store[results[1].key] = results[1].value
    /\ last.kind = "new_request"
    /\ last.key = results[2].key
    /\ store[last.key] = Sentinel
\* a step by which another descriptor of the cycle is polled or published while
\* the call in progress goes on waiting for its response
OtherEndpointProgress ==
    /\ Next
    /\ sched' = "wait"
    /\ j' = j
    /\ (sent' # sent \/ results' # results \/ store' # store)

\* C13 as stated: while a fetchData call waits for its response and descriptors
\* of the cycle are still to come, one of them can be polled or published
\* without that response arriving.
C13_WaitDoesNotBlockOthers ==
    (Running /\ sched = "wait" /\ j < Len(cycleConfig)) => ENABLED OtherEndpointProgress
\* the requests that went out in this cycle for the descriptor at index q
Requests(q) == Cardinality({ p \in 1 .. Len(sent) : sent[p] = q })

\* C14 as amended: in a cycle, a descriptor whose call has returned has had one
\* request if http.NewRequest accepted its URL and none if not, whatever the
\* call's outcome; the descriptor in progress has had at most one; the ones to
\* come have had none; and a cycle's requests begin only after a load that
\* follows the start of the goroutine or the end of a sleep.
C14_AtMostOneRequestPerDescriptor ==
    /\ [](sched \in { "loop", "wait", "sleep" } =>
            \A q \in 1 .. Len(cycleConfig) :
                /\ q < j => Requests(q) = (IF NewRequestOk(cycleConfig[q].url) THEN 1 ELSE 0)
                /\ q = j => Requests(q) = (IF sched = "wait" THEN 1 ELSE 0)
                /\ q > j => Requests(q) = 0)
    /\ [][ /\ (sent' # sent /\ sent' # <<>>) => (sched = "loop" /\ sent' = Append(sent, j))
           /\ (sent' # sent /\ sent' = <<>>) => sched = "load"
           /\ (sched' = "load" /\ sched # "load") => sched \in { "off", "sleep" } ]_vars

\* C14 witness: a cycle of two descriptors is complete; the first call's one
\* request ended in a failure, the second call's one request in a measurement
C14_Witness ==
    /\ sched = "sleep"
    /\ Len(cycleConfig) = 2
    /\ sent = <<1, 2>>
    /\ results[1].failed
    /\ ~results[2].failed

\* C14 as stated: when a cycle is complete, every descriptor of its
\* configuration has had exactly one request.
C14_ExactlyOneRequestPerDescriptor ==
    sched = "sleep" => \A q \in 1 .. Len(cycleConfig) : Requests(q) = 1
\* C15: when the goroutine's readConfig fails, the step that fails ends the
\* process with a non-zero status and changes nothing else: no fetchData call
\* is begun, no request goes out, the store and the scrape in progress are as
\* they were; and once it has failed no step is taken any more: no further load,
\* cycle, fetchData call or scrape.
C15_ReloadFailureIsFatal ==
    /\ [](cycleLoad = "failed" =>
            /\ pc = "exited"
            /\ exitCode # 0
            /\ sched = "load")
    /\ [][ /\ (cycleLoad' = "failed" /\ cycleLoad # "failed") =>
                /\ Running
                /\ sched = "load"
                /\ UNCHANGED <<store, sched, cycleConfig, j, cycles, scrapeVars, histVars>>
           /\ cycleLoad = "failed" => UNCHANGED vars ]_vars

\* C15 witness: the load of the second cycle has failed, after a first cycle
\* that made a fetchData call and a scrape that was answered
C15_Witness ==
    /\ cycleLoad = "failed"
    /\ pc = "exited"
    /\ exitCode = 1
    /\ cycles = 1
    /\ Len(results) >= 1
    /\ served = 1
\* the last index of the cycle's configuration whose descriptor has the key of
\* the descriptor at index q
LastWithKeyOf(q) ==
    CHOOSE p \in q .. Len(cycleConfig) :
        /\ cycleConfig[p].url = cycleConfig[q].url
        /\ cycleConfig[p].origin = cycleConfig[q].origin
        /\ \A r \in (p + 1) .. Len(cycleConfig) :
                cycleConfig[r].url # cycleConfig[q].url \/ cycleConfig[r].origin # cycleConfig[q].origin

\* C16: descriptors of one configuration that share a key share one entry: when
\* init has run, the store has as many entries as the startup list has distinct
\* keys, and when a cycle is complete the entry of each of its descriptors holds
\* what the call for the last descriptor with that key published.
C16_LaterDuplicateWins ==
    /\ pc = "main" => Cardinality(DOMAIN store) = Cardinality(StartupKeys)
    /\ sched = "sleep" =>
            /\ Cardinality(DOMAIN store \cap CycleKeys) = Cardinality(CycleKeys)
            /\ \A q \in 1 .. Len(cycleConfig) :
                    store[<<cycleConfig[q].url, cycleConfig[q].origin>>]
                        = results[LastWithKeyOf(q)].value

\* C16 witness: a cycle over the same descriptor twice is complete, the two
\* calls published different measurements, and the entry holds the second
C16_Witness ==
    /\ sched = "sleep"
    /\ Len(cycleConfig) = 2
    /\ cycleConfig[1] = cycleConfig[2]
    /\ ~results[1].failed
    /\ ~results[2].failed
    /\ results[1].value # results[2].value
    /\ store[<<cycleConfig[1].url, cycleConfig[1].origin>>] = results[2].value
\* C17: no step removes an entry from the store, and no step changes the value
\* of an entry whose key is not a key of the configuration the cycle in
\* progress has loaded: an entry of a descriptor that a reload no longer lists
\* stays, with the value last published for it.
C17_EntriesAreNeverRemoved ==
    [][ \A k \in DOMAIN store :
            /\ k \in DOMAIN store'
            /\ k \notin CycleKeys => store'[k] = store[k] ]_vars

\* C17 witness: the second cycle is complete over a configuration that no
\* longer lists a key the first cycle published a measurement for, and the
\* entry still holds a measurement
C17_Witness ==
    /\ cycles = 2
    /\ sched = "sleep"
    /\ Len(cycleConfig) >= 1
    /\ \E k \in measured :
            /\ k \notin CycleKeys
            /\ k \notin StartupKeys
            /\ k \in DOMAIN store
            /\ store[k] # Sentinel
\* the zones the process may run in, as whole hours east of UTC
ZoneOffsets == { -9, 0, 3, 6 }
\* hours in ticks: a day is 24 hours and Scale * TicksPerHundredth ticks
TicksOf(hours) == (hours * Scale * TicksPerHundredth) \div 24
\* the instant that a wall-clock reading denotes in the zone z hours east of UTC
InZone(wall, z) == wall - TicksOf(z)

\* C18 as stated: whatever zone the process runs in, the value published for a
\* date limit that parsed is the rounded difference in days between now and the
\* instant the string denotes in that zone.
C18_DateLimitIsLocalTime ==
    \A z \in ZoneOffsets :
        last.kind = "ok" =>
            NearestAwayFromZero(last.value, Saturated(InZone(last.date, z) - last.at))
\* the fetchData calls in progress: the indices whose request is out and whose
\* call has not returned
InProgress == { q \in 1 .. Len(cycleConfig) : Requests(q) > 0 /\ q > Len(results) }

\* C19: at most one fetchData call is in progress at any time; while the
\* goroutine waits for a response the one call in progress is the one for the
\* descriptor at the range index, and all calls before it have returned; at the
\* range loop and in the sleep none is in progress; the returns of a cycle are
\* those of its descriptors in list order, and the requests went out in that
\* order; the sleep begins with every call of the cycle returned.
C19_OneInvocationAtATime ==
    /\ Cardinality(InProgress) <= 1
    /\ sched = "wait" =>
            /\ InProgress = { j }
            /\ Len(results) = j - 1
    /\ sched \in { "loop", "sleep" } =>
            /\ InProgress = {}
            /\ Len(results) = j - 1
    /\ sched = "sleep" => j = Len(cycleConfig) + 1
    /\ sched \in { "loop", "wait", "sleep" } =>
            /\ \A q \in 1 .. Len(results) :
                    results[q].key = <<cycleConfig[q].url, cycleConfig[q].origin>>
            /\ \A p \in 1 .. Len(sent) : \A q \in 1 .. Len(sent) : p < q => sent[p] < sent[q]

\* C19 witness: the second call of a cycle waits for its response after the
\* first call, which also sent a request, has returned
C19_Witness ==
    /\ sched = "wait"
    /\ j = 2
    /\ sent = <<1, 2>>
    /\ Len(results) = 1
    /\ InProgress = { 2 }
====
